---- MODULE Spec2Model ----
(***************************************************************************)
(* Model of the rust_hls compiler core: the IR graph (src/ir/graph.rs),    *)
(* the pipeline scheduler (src/passes/pipeline.rs), the Verilog emitter    *)
(* (src/backend/verilog.rs) together with the clocked behaviour of the    *)
(* RTL text it emits, and the software evaluator (src/backend/sim.rs).     *)
(***************************************************************************)
EXTENDS Integers, Sequences, FiniteSets, TLC

(***************************************************************************)
(* Bounds of the model.                                                    *)
(***************************************************************************)
MaxNodes == 3

(***************************************************************************)
(* Small helpers.                                                          *)
(***************************************************************************)
NoValue == 0 - 1

Range(s) == {s[i] : i \in 1..Len(s)}

Min2(a, b) == IF a < b THEN a ELSE b

\* usize::saturating_sub
SatSub(a, b) == IF a > b THEN a - b ELSE 0

SetMax(S) == IF S = {} THEN 0 ELSE CHOOSE m \in S : \A x \in S : x <= m

SetMin(S) == CHOOSE m \in S : \A x \in S : m <= x

\* HashMap::get(k).copied().unwrap_or(d)
GetOr(m, k, d) == IF k \in DOMAIN m THEN m[k] ELSE d

\* HashMap::insert(k, v)
MapInsert(m, k, v) == [x \in (DOMAIN m) \cup {k} |-> IF x = k THEN v ELSE m[x]]

EmptyMap == [x \in {} |-> 0]

(***************************************************************************)
(* Operations (enum Operation).  An operation is a record with its kind,   *)
(* the sequence of its operand values, a port name and a constant.         *)
(***************************************************************************)
MkOp(k, as, n, v) == [kind |-> k, args |-> as, name |-> n, val |-> v]

Load(n) == MkOp("Load", <<>>, n, 0)
Const(v) == MkOp("Const", <<>>, "", v)
Add(a, b) == MkOp("Add", <<a, b>>, "", 0)
Sub(a, b) == MkOp("Sub", <<a, b>>, "", 0)
Mul(a, b) == MkOp("Mul", <<a, b>>, "", 0)
Store(n, v) == MkOp("Store", <<v>>, n, 0)
PipelineRegister(v) == MkOp("PipelineRegister", <<v>>, "", 0)
CmpLt(a, b) == MkOp("CmpLt", <<a, b>>, "", 0)
Mux(sel, a, b) == MkOp("Mux", <<sel, a, b>>, "", 0)

\* get_operation_latency with adders that take two cycles
get_operation_latency_slow_adders(op) ==
  CASE op.kind \in {"Add", "Sub"} -> 2
    [] op.kind = "Mul" -> 3
    [] op.kind = "Div" -> 18
    [] op.kind \in {"And", "Or", "Not"} -> 1
    [] op.kind \in {"CmpLt", "CmpEq"} -> 1
    [] op.kind = "Load" -> 2
    [] op.kind = "Store" -> 1
    [] op.kind = "Const" -> 0
    [] op.kind = "Mux" -> 1
    [] op.kind = "PipelineRegister" -> 1
    [] OTHER -> 0

\* Graph::get_operation_latency
get_operation_latency(op) ==
  CASE op.kind \in {"Add", "Sub"} -> 1
    [] op.kind = "Mul" -> 3
    [] op.kind = "Div" -> 18
    [] op.kind \in {"And", "Or", "Not"} -> 1
    [] op.kind \in {"CmpLt", "CmpEq"} -> 1
    [] op.kind = "Load" -> 2
    [] op.kind = "Store" -> 1
    [] op.kind = "Const" -> 0
    [] op.kind = "Mux" -> 1
    [] op.kind = "PipelineRegister" -> 1
    [] OTHER -> 0

\* PipelineScheduler::get_resource_type
get_resource_type(op) ==
  CASE op.kind \in {"Add", "Sub"} -> "adder"
    [] op.kind = "Mul" -> "multiplier"
    [] op.kind = "Div" -> "divider"
    [] op.kind \in {"Load", "Store"} -> "memory"
    [] OTHER -> "logic"

\* PipelineScheduler::new: the default resource_constraints
DefaultConstraints ==
  [r \in {"adder", "multiplier", "divider", "memory"} |->
     CASE r = "adder" -> 100
       [] r = "multiplier" -> 12
       [] r = "divider" -> 4
       [] r = "memory" -> 8]

\* PipelineConfig::default
DefaultConfig ==
  [enable |-> FALSE, initiation_interval |-> 1, pipeline_depth |-> 1,
   unroll_factor |-> 1]

(***************************************************************************)
(* The graph as a value: the fields of struct Graph.                       *)
(***************************************************************************)
MkGraph(ns, nv, nn, vm) ==
  [nodes |-> ns, next_value |-> nv, next_node |-> nn, value_map |-> vm]

NodeById(ns, id) == ns[CHOOSE i \in 1..Len(ns) : ns[i].id = id]

NodeIds(ns) == {ns[i].id : i \in 1..Len(ns)}

\* Graph::add_node_with_output (with Graph::new_value inlined)
add_node_with_output(g, op) ==
  MkGraph(Append(g.nodes, [id |-> g.next_node, op |-> op, output |-> g.next_value]),
          g.next_value + 1, g.next_node + 1,
          MapInsert(g.value_map, g.next_value, g.next_node))

\* Graph::add_node
add_node(g, op) ==
  MkGraph(Append(g.nodes, [id |-> g.next_node, op |-> op, output |-> NoValue]),
          g.next_value, g.next_node + 1, g.value_map)

\* Graph::insert_pipeline_register
insert_pipeline_register(g, value) ==
  MkGraph(Append(g.nodes, [id |-> g.next_node, op |-> PipelineRegister(value),
                           output |-> g.next_value]),
          g.next_value + 1, g.next_node + 1,
          MapInsert(g.value_map, g.next_value, g.next_node))

(***************************************************************************)
(* The pipeline scheduler (src/passes/pipeline.rs).  HashMaps are          *)
(* functions whose domain is the set of keys present.                      *)
(***************************************************************************)

\* PipelineScheduler::build_dependency_graph: for every node the producers of
\* its operands, in operand order, skipping operands value_map does not know.
OperandProducers(args, vm) ==
  LET known == SelectSeq(args, LAMBDA v : v \in DOMAIN vm)
  IN [i \in 1..Len(known) |-> vm[known[i]]]

build_dependency_graph(ns, vm) ==
  [id \in NodeIds(ns) |->
     LET node == ns[SetMax({i \in 1..Len(ns) : ns[i].id = id})]
     IN IF node.op.kind \in {"Add", "Sub", "Mul", "Div", "And", "Or", "CmpLt",
                             "CmpEq", "Not", "PipelineRegister", "Mux", "Store"}
          THEN OperandProducers(node.op.args, vm)
          ELSE <<>>]

\* The while-let loop of calculate_asap_schedule: pop the front of the ready
\* queue, record its cycle, and decrement the counter of every node whose
\* dependency list contains the popped node (once per node, whatever the
\* number of occurrences). A node whose counter reaches zero is queued with
\* the finish cycle of the node just popped.
RECURSIVE AsapLoop(_, _, _, _, _)
AsapLoop(ns, dependencies, ready_queue, schedule, dependency_count) ==
  IF ready_queue = <<>> THEN schedule
  ELSE
    LET node_id == Head(ready_queue)[1]
        earliest_cycle == Head(ready_queue)[2]
        node == NodeById(ns, node_id)
        finish_cycle == earliest_cycle + get_operation_latency(node.op)
        hit(d) == node_id \in Range(GetOr(dependencies, d, <<>>))
        count2 == [d \in DOMAIN dependency_count |->
                     IF hit(d) THEN dependency_count[d] - 1 ELSE dependency_count[d]]
        woken == SelectSeq(ns, LAMBDA n : hit(n.id) /\ count2[n.id] = 0)
        pushed == [i \in 1..Len(woken) |-> <<woken[i].id, finish_cycle>>]
    IN AsapLoop(ns, dependencies, Tail(ready_queue) \o pushed,
                MapInsert(schedule, node_id, earliest_cycle), count2)

\* PipelineScheduler::calculate_asap_schedule
calculate_asap_schedule(ns, dependencies) ==
  LET dependency_count == [id \in NodeIds(ns) |-> Len(GetOr(dependencies, id, <<>>))]
      sources == SelectSeq(ns, LAMBDA n : GetOr(dependencies, n.id, <<>>) = <<>>)
      ready_queue == [i \in 1..Len(sources) |-> <<sources[i].id, 0>>]
  IN AsapLoop(ns, dependencies, ready_queue, EmptyMap, dependency_count)

\* PipelineScheduler::calculate_alap_schedule
calculate_alap_schedule(ns, asap, pipeline_depth) ==
  LET max_cycle == SetMax({asap[k] : k \in DOMAIN asap})
      target_cycles == Min2(max_cycle, pipeline_depth)
  IN [id \in NodeIds(ns) |->
        LET asap_time == GetOr(asap, id, 0)
            slack == SatSub(target_cycles, asap_time)
        IN asap_time + slack]

\* The key of sort_by_key in resource_constrained_schedule
Mobility(asap, alap, id) == SatSub(GetOr(alap, id, 0), GetOr(asap, id, 0))

\* slice::sort_by_key is a stable sort: insert each node after the nodes
\* whose key is not larger.
RECURSIVE SortByMobility(_, _, _)
SortByMobility(ns, asap, alap) ==
  IF ns = <<>> THEN <<>>
  ELSE
    LET front == SortByMobility(SubSeq(ns, 1, Len(ns) - 1), asap, alap)
        last == ns[Len(ns)]
        key(n) == Mobility(asap, alap, n.id)
        k == Cardinality({i \in 1..Len(front) : key(front[i]) <= key(last)})
    IN SubSeq(front, 1, k) \o <<last>> \o SubSeq(front, k + 1, Len(front))

\* The usage of resource r at cycle c: resource_usage[cycle][resource]
Usage(resource_usage, c, r) == GetOr(resource_usage, <<c, r>>, 0)

\* The cycles of the window asap_time..=alap_time whose usage is below budget
FreeCycles(resource_usage, constraints, r, asap_time, alap_time) ==
  {c \in asap_time..alap_time :
     Usage(resource_usage, c, r) < GetOr(constraints, r, 1)}

\* The for loop over nodes_by_mobility of resource_constrained_schedule
RECURSIVE PlaceLoop(_, _, _, _, _, _)
PlaceLoop(order, asap, alap, constraints, final_schedule, resource_usage) ==
  IF order = <<>> THEN final_schedule
  ELSE
    LET node == Head(order)
        asap_time == GetOr(asap, node.id, 0)
        alap_time == GetOr(alap, node.id, 0)
        resource_type == get_resource_type(node.op)
        free == FreeCycles(resource_usage, constraints, resource_type,
                           asap_time, alap_time)
        scheduled_cycle == IF free = {} THEN asap_time ELSE SetMin(free)
        usage2 == IF free = {} THEN resource_usage
                  ELSE MapInsert(resource_usage, <<scheduled_cycle, resource_type>>,
                                 Usage(resource_usage, scheduled_cycle, resource_type) + 1)
    IN PlaceLoop(Tail(order), asap, alap, constraints,
                 MapInsert(final_schedule, node.id, scheduled_cycle), usage2)

\* PipelineScheduler::resource_constrained_schedule
resource_constrained_schedule(ns, asap, alap, constraints) ==
  PlaceLoop(SortByMobility(ns, asap, alap), asap, alap, constraints,
            EmptyMap, EmptyMap)

\* The first loop of insert_pipeline_registers: one entry per pair of a node
\* that has an output and any node of the graph scheduled two or more cycles
\* after it.
RegistersToInsert(ns, schedule) ==
  LET pairs == [k \in 1..(Len(ns) * Len(ns)) |->
                  <<((k - 1) \div Len(ns)) + 1, ((k - 1) % Len(ns)) + 1>>]
      crossing == SelectSeq(pairs, LAMBDA p :
                    /\ ns[p[1]].output # NoValue
                    /\ GetOr(schedule, ns[p[2]].id, 0) > GetOr(schedule, ns[p[1]].id, 0) + 1)
  IN [i \in 1..Len(crossing) |->
        <<ns[crossing[i][1]].output,
          GetOr(schedule, ns[crossing[i][2]].id, 0)
            - GetOr(schedule, ns[crossing[i][1]].id, 0) - 1>>]

\* The second loop of insert_pipeline_registers: every entry (value, stages)
\* becomes a chain of `stages` calls of Graph::insert_pipeline_register, the
\* first on `value` and each later one on the value the previous call
\* returned.  ChainCalls lists the calls in program order as <<entry, link>>.
ChainCalls(registers_to_insert) ==
  LET n == Len(registers_to_insert)
      longest == SetMax({registers_to_insert[k][2] : k \in 1..n})
      grid == [m \in 1..(n * longest) |->
                 <<((m - 1) \div longest) + 1, ((m - 1) % longest) + 1>>]
  IN SelectSeq(grid, LAMBDA c : c[2] <= registers_to_insert[c[1]][2])

\* insert_pipeline_registers that also points the consumers of a registered
\* value at the first register of a chain on it
insert_pipeline_registers_rewiring(g, schedule) ==
  LET registers_to_insert == RegistersToInsert(g.nodes, schedule)
      calls == ChainCalls(registers_to_insert)
      total == Len(calls)
      operand(p) == IF calls[p][2] = 1 THEN registers_to_insert[calls[p][1]][1]
                    ELSE g.next_value + p - 2
      appended == [p \in 1..total |->
                     [id |-> g.next_node + p - 1,
                      op |-> PipelineRegister(operand(p)),
                      output |-> g.next_value + p - 1]]
      minted == {g.next_value + p - 1 : p \in 1..total}
      heads(v) == {p \in 1..total : calls[p][2] = 1 /\ operand(p) = v}
      rewire(v) == IF heads(v) = {} THEN v ELSE g.next_value + SetMin(heads(v)) - 1
      rewired == [i \in 1..Len(g.nodes) |->
                    [g.nodes[i] EXCEPT !.op.args = [k \in DOMAIN @ |-> rewire(@[k])]]]
  IN MkGraph(rewired \o appended, g.next_value + total, g.next_node + total,
             [v \in (DOMAIN g.value_map) \cup minted |->
                IF v \in minted THEN g.next_node + (v - g.next_value)
                ELSE g.value_map[v]])

\* PipelineScheduler::insert_pipeline_registers.  The p-th call of
\* insert_pipeline_register takes node id next_node + p - 1 and mints value
\* next_value + p - 1.
insert_pipeline_registers(g, schedule) ==
  LET registers_to_insert == RegistersToInsert(g.nodes, schedule)
      calls == ChainCalls(registers_to_insert)
      total == Len(calls)
      operand(p) == IF calls[p][2] = 1 THEN registers_to_insert[calls[p][1]][1]
                    ELSE g.next_value + p - 2
      appended == [p \in 1..total |->
                     [id |-> g.next_node + p - 1,
                      op |-> PipelineRegister(operand(p)),
                      output |-> g.next_value + p - 1]]
      minted == {g.next_value + p - 1 : p \in 1..total}
  IN MkGraph(g.nodes \o appended, g.next_value + total, g.next_node + total,
             [v \in (DOMAIN g.value_map) \cup minted |->
                IF v \in minted THEN g.next_node + (v - g.next_value)
                ELSE g.value_map[v]])

\* All orders in which a HashMap may yield the keys of S
RECURSIVE Orders(_)
Orders(S) ==
  IF S = {} THEN {<<>>}
  ELSE UNION {{<<x>> \o rest : rest \in Orders(S \ {x})} : x \in S}

\* result.sort_by_key(|stage| stage.stage): the cycles in use, ascending
RECURSIVE SortedCycles(_)
SortedCycles(S) ==
  IF S = {} THEN <<>> ELSE <<SetMin(S)>> \o SortedCycles(S \ {SetMin(S)})

RECURSIVE StageChoices(_, _)
StageChoices(schedule, cycles) ==
  IF cycles = <<>> THEN {<<>>}
  ELSE
    LET cycle == Head(cycles)
        members == {id \in DOMAIN schedule : schedule[id] = cycle}
    IN {<<[stage |-> cycle, cycle |-> cycle, operations |-> ops]>> \o rest :
          ops \in Orders(members), rest \in StageChoices(schedule, Tail(cycles))}

\* generate_pipeline_stages with the group of the lowest cycle left out
generate_pipeline_stages_skip_first(schedule) ==
  LET cycles == SortedCycles({schedule[id] : id \in DOMAIN schedule})
  IN StageChoices(schedule, IF cycles = <<>> THEN <<>> ELSE Tail(cycles))

\* PipelineScheduler::generate_pipeline_stages: the stage lists the function
\* may return; the order of a stage's operations is the iteration order of
\* the schedule HashMap, which the program does not fix.
generate_pipeline_stages(schedule) ==
  StageChoices(schedule, SortedCycles({schedule[id] : id \in DOMAIN schedule}))

(***************************************************************************)
(* The Verilog emitter's entry point (src/backend/verilog.rs), as far as   *)
(* control flow goes: which branch is taken and whether the call returns.  *)
(***************************************************************************)
CountKind(ns, k) == Cardinality({i \in 1..Len(ns) : ns[i].op.kind = k})

\* analysis.inputs and analysis.outputs of analyze_computation_pattern: the
\* Load and Store names in node order, duplicates kept
PortNames(ns, k) ==
  LET sel == SelectSeq(ns, LAMBDA n : n.op.kind = k)
  IN [i \in 1..Len(sel) |-> sel[i].op.name]

\* analyze_computation_pattern with a MAC test that asks for one Add only
ComputationPattern_one_add(ns) ==
  LET mul_count == CountKind(ns, "Mul")
      add_count == CountKind(ns, "Add")
  IN IF mul_count >= 2 /\ add_count >= 1 THEN "MAC"
     ELSE IF mul_count <= 1 /\ add_count <= 2 THEN "SimpleArithmetic"
     ELSE "Complex"

\* analyze_computation_pattern: the pattern
ComputationPattern(ns) ==
  LET mul_count == CountKind(ns, "Mul")
      add_count == CountKind(ns, "Add")
  IN IF mul_count >= 2 /\ add_count >= 2 THEN "MAC"
     ELSE IF mul_count <= 1 /\ add_count <= 2 THEN "SimpleArithmetic"
     ELSE "Complex"

\* logical_stages with the ap_done register counted as one more stage
logical_stages_counting_done(pattern) ==
  CASE pattern = "MAC" -> 6
    [] pattern = "SimpleArithmetic" -> 4
    [] pattern = "Complex" -> 5

\* analyze_computation_pattern: logical_stages
logical_stages(pattern) ==
  CASE pattern = "MAC" -> 5
    [] pattern = "SimpleArithmetic" -> 3
    [] pattern = "Complex" -> 4

\* generate_clean_pipelined_module: the handshake constructs written into the
\* module body for each pattern. generate_mac_pipeline declares the valid
\* shift register and the counter, assigns ap_idle and ap_ready and calls
\* generate_pipeline_control; generate_arithmetic_pipeline writes the two
\* declarations only; generate_generic_pipeline writes a comment.
generate_clean_pipelined_module(ns) ==
  CASE ComputationPattern(ns) = "MAC" ->
         {"reg pipeline_valid", "reg pipeline_counter", "assign ap_idle",
          "assign ap_ready", "pipeline_valid <= shift", "ap_done <= top valid"}
    [] ComputationPattern(ns) = "SimpleArithmetic" ->
         {"reg pipeline_valid", "reg pipeline_counter"}
    [] ComputationPattern(ns) = "Complex" -> {}

\* generate_mac_pipeline and generate_mac_stage_1 slice analysis.inputs[4..]
\* and index inputs[0] to inputs[3]: both abort the program (slice index out
\* of range) when there are fewer than four Load nodes.
MacPipelineAborts(ns) == Len(PortNames(ns, "Load")) < 4

\* generate_verilog_module: "rtl" when a string is returned, "panic" when
\* the call aborts
generate_verilog_module(ns, config, stages) ==
  IF config.enable /\ stages # <<>>
    THEN IF ComputationPattern(ns) = "MAC" /\ MacPipelineAborts(ns)
           THEN "panic" ELSE "rtl"
    ELSE "rtl"

(***************************************************************************)
(* The software evaluator (src/backend/sim.rs).                            *)
(***************************************************************************)

\* Simulator::set_input, once per entry of the input vector
RECURSIVE SetInputs(_, _, _)
SetInputs(ns, input, values) ==
  IF ns = <<>> THEN values
  ELSE LET n == Head(ns)
           v2 == IF n.op.kind = "Load" /\ n.op.name \in DOMAIN input /\ n.output # NoValue
                   THEN MapInsert(values, n.output, input[n.op.name])
                   ELSE values
       IN SetInputs(Tail(ns), input, v2)

\* The arithmetic of Simulator::simulate for one node
SimValue(op, values) ==
  LET l == GetOr(values, op.args[1], 0)
      r == GetOr(values, op.args[2], 0)
  IN CASE op.kind = "Add" -> l + r
       [] op.kind = "Sub" -> l - r
       [] op.kind = "Mul" -> l * r

\* The for loop of Simulator::simulate; st = <<values, outputs>>
RECURSIVE SimLoop(_, _)
SimLoop(ns, st) ==
  IF ns = <<>> THEN st[2]
  ELSE
    LET n == Head(ns)
        values == st[1]
        outputs == st[2]
        st2 ==
          CASE n.op.kind = "Const" ->
                 <<IF n.output # NoValue THEN MapInsert(values, n.output, n.op.val)
                   ELSE values, outputs>>
            [] n.op.kind \in {"Add", "Sub", "Mul"} ->
                 <<IF n.output # NoValue
                     THEN MapInsert(values, n.output, SimValue(n.op, values))
                     ELSE values, outputs>>
            [] n.op.kind = "Store" ->
                 <<values, MapInsert(outputs, n.op.name, GetOr(values, n.op.args[1], 0))>>
            [] OTHER -> st
    IN SimLoop(Tail(ns), st2)

\* The nodes set_input writes for, and the nodes simulate's match has an arm
\* for (every other node is passed over)
IsLoad(n) == n.op.kind = "Load"

IsSimulated(n) == n.op.kind \in {"Const", "Add", "Sub", "Mul", "Store"}

\* Simulator::new, set_input for every port of the vector, then simulate
simulate(ns, input) ==
  SimLoop(SelectSeq(ns, IsSimulated),
          <<SetInputs(SelectSeq(ns, IsLoad), input, EmptyMap), EmptyMap>>)

(***************************************************************************)
(* The clocked behaviour of the module text that generate_mac_pipeline     *)
(* emits.  Every register is written with a non-blocking assignment, so    *)
(* each next value is a function of the values before the clock edge.      *)
(***************************************************************************)
\* The module parameter DATA_WIDTH (32 unless the instantiation overrides it),
\* instantiated small enough for every product to be computed exactly
DATA_WIDTH == 8

Wrap(x) == x % (2 ^ DATA_WIDTH)

Bit(b) == IF b THEN 1 ELSE 0

\* assign ap_idle = (pipeline_counter == 0);
IdleWire(counter) == counter = 0

\* assign ap_ready = (pipeline_counter < stages);
ReadyWire(counter, stages) == counter < stages

\* pipeline_valid <= {pipeline_valid[stages-2:0], ap_start && ap_ready};
ShiftValid(valid, stages, start, ready) ==
  [i \in 0..(stages - 1) |-> IF i = 0 THEN Bit(start /\ ready) ELSE valid[i - 1]]

\* The counter update of generate_pipeline_control
NextCounter(counter, valid, stages, start, ready) ==
  IF start /\ ready
    THEN IF counter < stages THEN counter + 1 ELSE counter
    ELSE IF counter > 0 /\ valid[stages - 1] = 1 THEN counter - 1 ELSE counter

\* ap_done taken from the valid bit below the top one
NextDoneEarly(valid, stages) == valid[stages - 2]

\* ap_done <= pipeline_valid[stages-1];
NextDone(valid, stages) == valid[stages - 1]

\* generate_mac_stage_0: <input>_reg0 <= <input>, under pipeline_valid[0]
NextReg0(reg0, valid, ports) ==
  IF valid[0] = 1 THEN [n \in DOMAIN reg0 |-> ports[n]] ELSE reg0

\* generate_mac_stage_1: the two products of the first four inputs and the
\* pass-through of the others, under pipeline_valid[1]
NextStage1(s1, reg0, valid, inputs) ==
  IF valid[1] = 1
    THEN [mult_ab |-> Wrap(reg0[inputs[1]] * reg0[inputs[2]]),
          mult_cd |-> Wrap(reg0[inputs[3]] * reg0[inputs[4]]),
          pass |-> [n \in DOMAIN s1.pass |-> reg0[n]]]
    ELSE s1

\* generate_mac_stage_2: add_mult_reg2 <= mult_ab_reg1 + mult_cd_reg1 and
\* the pass-through, under pipeline_valid[2]
NextStage2(s2, s1, valid) ==
  IF valid[2] = 1
    THEN [add_mult |-> Wrap(s1.mult_ab + s1.mult_cd),
          pass |-> [n \in DOMAIN s2.pass |-> s1.pass[n]]]
    ELSE s2

\* generate_mac_stage_3: result_reg3 <= add_mult_reg2 + e_reg2, under
\* pipeline_valid[3]
NextStage3(result_reg3, s2, valid) ==
  IF valid[3] = 1 THEN Wrap(s2.add_mult + s2.pass["e"]) ELSE result_reg3

\* generate_mac_stage_4: every output port <= result_reg3, under
\* pipeline_valid[4]
NextOutputs(out, result_reg3, valid) ==
  IF valid[4] = 1 THEN [n \in DOMAIN out |-> result_reg3] ELSE out

(***************************************************************************)
(* State.  The fields of Graph; the scheduler's resource_constraints; what *)
(* the last compiler calls did (run_size, last_run, emitted); the registers *)
(* and input ports of the emitted module; and the clock history the timing *)
(* properties refer to.                                                    *)
(***************************************************************************)
VARIABLES nodes, next_value, next_node, value_map, pipeline_config,
          pipeline_stages, resource_constraints, run_size, last_run, emitted,
          stages, pipeline_valid, pipeline_counter, ap_done, reg0, stage1,
          stage2, result_reg3, out_port, ap_start, in_port, starts, since, held,
          accepted, bid_queues, ask_queues, next_order_id, current_time

gvars == <<nodes, next_value, next_node, value_map, pipeline_config,
           pipeline_stages, resource_constraints, run_size, last_run, emitted>>

rvars == <<stages, pipeline_valid, pipeline_counter, ap_done, reg0, stage1,
           stage2, result_reg3, out_port, ap_start, in_port, starts, since, held,
           accepted>>

\* The fields of MarketDataSimulator (src/hft/market_data.rs)
mvars == <<bid_queues, ask_queues, next_order_id, current_time>>

vars == <<gvars, rvars, mvars>>

\* No MarketDataSimulator has been constructed
NoMarket ==
  /\ bid_queues = <<>>
  /\ ask_queues = <<>>
  /\ next_order_id = 0
  /\ current_time = 0

TheGraph == MkGraph(nodes, next_value, next_node, value_map)

NoRun == [called |-> FALSE]

\* schedule_pipeline has gone through its steps at least once; run_size is the
\* number of nodes the graph had when it last did
has_run == run_size # NoValue

\* Inputs of the construction calls
Names == {"a"}
Operands == {0, 2}
OperandPairs == {<<0, 1>>}
Depths == {1, 5}
Budgets == {<<"memory", 1>>}

OutputOps ==
  {Load(n) : n \in Names} \cup {Const(1)}
    \cup {Add(p[1], p[2]) : p \in OperandPairs}
    \cup {Mul(p[1], p[2]) : p \in OperandPairs}

SinkOps == {Store("out", v) : v \in Operands}

\* Graph::new
EmptyGraph == MkGraph(<<>>, 0, 0, EmptyMap)

\* No module has been emitted: the module's registers do not exist
NoModule ==
  /\ stages = 0
  /\ pipeline_valid = <<>>
  /\ pipeline_counter = 0
  /\ ap_done = 0
  /\ reg0 = EmptyMap
  /\ stage1 = EmptyMap
  /\ stage2 = EmptyMap
  /\ result_reg3 = 0
  /\ out_port = EmptyMap
  /\ ap_start = FALSE
  /\ in_port = EmptyMap
  /\ starts = 0
  /\ since = NoValue
  /\ held = TRUE
  /\ accepted = EmptyMap

SetGraph(g) ==
  /\ nodes' = g.nodes
  /\ next_value' = g.next_value
  /\ next_node' = g.next_node
  /\ value_map' = g.value_map

\* Graph::new and PipelineScheduler::new
GraphInit ==
  /\ nodes = <<>>
  /\ next_value = 0
  /\ next_node = 0
  /\ value_map = EmptyMap
  /\ pipeline_config = DefaultConfig
  /\ pipeline_stages = <<>>
  /\ resource_constraints = DefaultConstraints
  /\ run_size = NoValue
  /\ last_run = NoRun
  /\ emitted = "none"

AddNodeWithOutput ==
  /\ Len(nodes) < MaxNodes
  /\ \E op \in OutputOps : SetGraph(add_node_with_output(TheGraph, op))
  /\ last_run' = NoRun
  /\ emitted' = "none"
  /\ UNCHANGED <<pipeline_config, pipeline_stages, resource_constraints, run_size>>
  /\ UNCHANGED <<rvars, mvars>>

AddNode ==
  /\ Len(nodes) < MaxNodes
  /\ \E op \in SinkOps : SetGraph(add_node(TheGraph, op))
  /\ last_run' = NoRun
  /\ emitted' = "none"
  /\ UNCHANGED <<pipeline_config, pipeline_stages, resource_constraints, run_size>>
  /\ UNCHANGED <<rvars, mvars>>

\* Graph::enable_pipeline
EnablePipeline ==
  /\ \E depth \in Depths :
       pipeline_config' = [enable |-> TRUE, initiation_interval |-> 1,
                           pipeline_depth |-> depth, unroll_factor |-> 1]
  /\ pipeline_config' # pipeline_config
  /\ last_run' = NoRun
  /\ emitted' = "none"
  /\ UNCHANGED <<nodes, next_value, next_node, value_map, pipeline_stages,
                 resource_constraints, run_size>>
  /\ UNCHANGED <<rvars, mvars>>

\* A caller's write to the public field PipelineScheduler::resource_constraints
SetResourceConstraint ==
  /\ \E b \in Budgets :
       resource_constraints' = MapInsert(resource_constraints, b[1], b[2])
  /\ resource_constraints' # resource_constraints
  /\ last_run' = NoRun
  /\ emitted' = "none"
  /\ UNCHANGED <<nodes, next_value, next_node, value_map, pipeline_config,
                 pipeline_stages, run_size>>
  /\ UNCHANGED <<rvars, mvars>>

\* schedule_pipeline without the early return: the disabled call goes through
\* the scheduling steps as well
ScheduleDisabledFallsThrough ==
  /\ ~pipeline_config.enable
  /\ last_run = NoRun
  /\ LET dependencies == build_dependency_graph(nodes, value_map)
         asap_schedule == calculate_asap_schedule(nodes, dependencies)
         alap_schedule == calculate_alap_schedule(nodes, asap_schedule,
                                                  pipeline_config.pipeline_depth)
         final_schedule == resource_constrained_schedule(nodes, asap_schedule,
                                             alap_schedule, resource_constraints)
     IN /\ SetGraph(insert_pipeline_registers(TheGraph, final_schedule))
        /\ \E st \in generate_pipeline_stages(final_schedule) : pipeline_stages' = st
  /\ last_run' = [called |-> TRUE, enabled |-> FALSE, result |-> "Ok"]
  /\ emitted' = "none"
  /\ UNCHANGED <<pipeline_config, resource_constraints, run_size>>
  /\ UNCHANGED <<rvars, mvars>>

\* PipelineScheduler::schedule_pipeline with pipelining disabled: Ok(()) at once
ScheduleDisabled ==
  /\ ~pipeline_config.enable
  /\ last_run = NoRun
  /\ last_run' = [called |-> TRUE, enabled |-> FALSE, result |-> "Ok"]
  /\ emitted' = "none"
  /\ UNCHANGED <<nodes, next_value, next_node, value_map, pipeline_config,
                 pipeline_stages, resource_constraints, run_size>>
  /\ UNCHANGED <<rvars, mvars>>

\* PipelineScheduler::schedule_pipeline with pipelining enabled: steps 1 to 6
ScheduleSteps ==
  /\ pipeline_config.enable
  /\ LET dependencies == build_dependency_graph(nodes, value_map)
         asap_schedule == calculate_asap_schedule(nodes, dependencies)
         alap_schedule == calculate_alap_schedule(nodes, asap_schedule,
                                                  pipeline_config.pipeline_depth)
         final_schedule == resource_constrained_schedule(nodes, asap_schedule,
                                             alap_schedule, resource_constraints)
         g2 == insert_pipeline_registers(TheGraph, final_schedule)
     IN /\ SetGraph(g2)
        /\ \E st \in generate_pipeline_stages(final_schedule) : pipeline_stages' = st
        /\ last_run' = [called |-> TRUE, enabled |-> TRUE, result |-> "Ok",
                        pre |-> TheGraph, dependencies |-> dependencies,
                        asap |-> asap_schedule, alap |-> alap_schedule,
                        final |-> final_schedule]
  /\ run_size' = Len(nodes)
  /\ emitted' = "none"
  /\ UNCHANGED <<pipeline_config, resource_constraints>>
  /\ UNCHANGED <<rvars, mvars>>

\* The pass is run on graphs of at most MaxNodes nodes
ScheduleEnabled == Len(nodes) <= MaxNodes /\ ScheduleSteps

SchedulePipeline == ScheduleDisabled \/ ScheduleEnabled

GraphNext ==
  \/ AddNodeWithOutput
  \/ AddNode
  \/ EnablePipeline
  \/ SetResourceConstraint
  \/ SchedulePipeline

Init == GraphInit /\ NoModule /\ NoMarket

Next == GraphNext

Spec == Init /\ [][Next]_vars

(***************************************************************************)
(* The compile flow on whole graphs (examples/pipelined_mac.rs,            *)
(* backend/pipeline_integration.rs): a graph is built, pipelining is       *)
(* enabled, the pass runs once and the module is emitted.                  *)
(***************************************************************************)

\* A sequence of construction calls applied to Graph::new(); a call is
\* <<TRUE, op>> for add_node_with_output and <<FALSE, op>> for add_node
RECURSIVE BuildFrom(_, _)
BuildFrom(g, calls) ==
  IF calls = <<>> THEN g
  ELSE BuildFrom(IF Head(calls)[1] THEN add_node_with_output(g, Head(calls)[2])
                 ELSE add_node(g, Head(calls)[2]),
                 Tail(calls))

Build(calls) == BuildFrom(EmptyGraph, calls)

\* create_pipelined_mac of examples/pipelined_mac.rs, result = a*b + c*d + e,
\* and its variants: the last addend is value w, the stored value is value s
MacGraph(w, s) ==
  Build(<<<<TRUE, Load("a")>>, <<TRUE, Load("b")>>, <<TRUE, Load("c")>>,
          <<TRUE, Load("d")>>, <<TRUE, Load("e")>>,
          <<TRUE, Mul(0, 1)>>, <<TRUE, Mul(2, 3)>>,
          <<TRUE, Add(5, 6)>>, <<TRUE, Add(7, w)>>,
          <<FALSE, Store("result", s)>>>>)

\* The same computation on two inputs: a*b + a*b + a
MacTwoLoads ==
  Build(<<<<TRUE, Load("a")>>, <<TRUE, Load("b")>>,
          <<TRUE, Mul(0, 1)>>, <<TRUE, Mul(0, 1)>>,
          <<TRUE, Add(2, 3)>>, <<TRUE, Add(4, 0)>>,
          <<FALSE, Store("result", 5)>>>>)

\* out = x
IdentityGraph == Build(<<<<TRUE, Load("x")>>, <<FALSE, Store("out", 0)>>>>)

\* out = a < b ? a : b
MinGraph ==
  Build(<<<<TRUE, Load("a")>>, <<TRUE, Load("b")>>, <<TRUE, CmpLt(0, 1)>>,
          <<TRUE, Mux(2, 0, 1)>>, <<FALSE, Store("out", 3)>>>>)

\* out = (a + b) * (c + d)
ChainGraph ==
  Build(<<<<TRUE, Load("a")>>, <<TRUE, Load("b")>>, <<TRUE, Add(0, 1)>>,
          <<TRUE, Load("c")>>, <<TRUE, Load("d")>>, <<TRUE, Add(3, 4)>>,
          <<TRUE, Mul(2, 5)>>, <<FALSE, Store("out", 6)>>>>)

MacGraphs == {MacGraph(w, s) : w \in {4, 0}, s \in {8, 7}}

\* The graphs whose emitted module is clocked: the example's and one that
\* adds input a instead of input e
RtlGraphs == {MacGraph(4, 8), MacGraph(0, 8)}

\* sum = x*y + z*w on four constants: two independent multiplications and the
\* addition that sums them
MobilityGraph ==
  Build(<<<<TRUE, Const(2)>>, <<TRUE, Const(3)>>, <<TRUE, Mul(0, 1)>>,
          <<TRUE, Const(4)>>, <<TRUE, Const(5)>>, <<TRUE, Mul(3, 4)>>,
          <<TRUE, Add(2, 5)>>>>)

WholeGraphs ==
  MacGraphs \cup {MacTwoLoads, IdentityGraph, ChainGraph, MobilityGraph, MinGraph}

FlowInit ==
  /\ \E g \in WholeGraphs :
       /\ nodes = g.nodes
       /\ next_value = g.next_value
       /\ next_node = g.next_node
       /\ value_map = g.value_map
  /\ pipeline_config = DefaultConfig
  /\ pipeline_stages = <<>>
  /\ resource_constraints = DefaultConstraints
  /\ run_size = NoValue
  /\ last_run = NoRun
  /\ emitted = "none"
  /\ NoModule
  /\ NoMarket

\* The depth of end-to-end scenario 3, enable_pipeline(1, 4, 1)
ScenarioDepths == {4}

\* Graph::enable_pipeline with a scenario's depth, before the pass is run
EnablePipelineScenario ==
  /\ ~has_run
  /\ \E depth \in ScenarioDepths :
       pipeline_config' = [enable |-> TRUE, initiation_interval |-> 1,
                           pipeline_depth |-> depth, unroll_factor |-> 1]
  /\ pipeline_config' # pipeline_config
  /\ last_run' = NoRun
  /\ emitted' = "none"
  /\ UNCHANGED <<nodes, next_value, next_node, value_map, pipeline_stages,
                 resource_constraints, run_size>>
  /\ UNCHANGED <<rvars, mvars>>

\* scheduler.resource_constraints.insert("multiplier", 1), before the pass
\* is run
SetMultiplierBudget ==
  /\ ~has_run
  /\ resource_constraints' = MapInsert(resource_constraints, "multiplier", 1)
  /\ resource_constraints' # resource_constraints
  /\ last_run' = NoRun
  /\ emitted' = "none"
  /\ UNCHANGED <<nodes, next_value, next_node, value_map, pipeline_config,
                 pipeline_stages, run_size>>
  /\ UNCHANGED <<rvars, mvars>>

\* The pass is run once
ScheduleOnce == ~has_run /\ ScheduleSteps

\* backend::verilog::generate_verilog_module
GenerateVerilogModule ==
  /\ emitted = "none"
  /\ emitted' = generate_verilog_module(nodes, pipeline_config, pipeline_stages)
  /\ UNCHANGED <<nodes, next_value, next_node, value_map, pipeline_config,
                 pipeline_stages, resource_constraints, run_size, last_run>>
  /\ UNCHANGED <<rvars, mvars>>

FlowNext ==
  \/ EnablePipeline
  \/ EnablePipelineScenario
  \/ SetMultiplierBudget
  \/ ScheduleDisabled
  \/ ScheduleOnce
  \/ GenerateVerilogModule

SpecFlow == FlowInit /\ [][FlowNext]_vars

(***************************************************************************)
(* The emitted MAC module under clock: the module of a scheduled MacGraph, *)
(* driven by an environment that chooses ap_start and the input ports for  *)
(* every cycle.                                                            *)
(***************************************************************************)
AgeCap == 7

\* Values on the input ports a, b, c, d, e
Vectors ==
  {[a |-> 2, b |-> 3, c |-> 4, d |-> 5, e |-> 1],
   [a |-> 16, b |-> 16, c |-> 1, d |-> 3, e |-> 0]}

InputNames == PortNames(nodes, "Load")

OutputNames == PortNames(nodes, "Store")

\* The names of analysis.inputs[4..]
PassNames == {InputNames[i] : i \in 5..Len(InputNames)}

ap_idle == IdleWire(pipeline_counter)

ap_ready == ReadyWire(pipeline_counter, stages)

\* The if (!ap_rst_n) branches: every register is cleared
ResetRegisters ==
  /\ stages = logical_stages(ComputationPattern(nodes))
  /\ pipeline_valid = [i \in 0..(stages - 1) |-> 0]
  /\ pipeline_counter = 0
  /\ ap_done = 0
  /\ reg0 = [n \in Range(InputNames) |-> 0]
  /\ stage1 = [mult_ab |-> 0, mult_cd |-> 0, pass |-> [n \in PassNames |-> 0]]
  /\ stage2 = [add_mult |-> 0, pass |-> [n \in PassNames |-> 0]]
  /\ result_reg3 = 0
  /\ out_port = [n \in Range(OutputNames) |-> 0]
  /\ starts = 0
  /\ since = NoValue
  /\ held = TRUE
  /\ accepted = EmptyMap

\* A MacGraph after enable_pipeline, schedule_pipeline and
\* generate_verilog_module, its module held in reset.  The module text does
\* not depend on the order of a stage's operations, so one order stands for
\* all of them here.
RtlInit ==
  /\ \E g \in RtlGraphs, depth \in Depths :
       LET dependencies == build_dependency_graph(g.nodes, g.value_map)
           asap_schedule == calculate_asap_schedule(g.nodes, dependencies)
           alap_schedule == calculate_alap_schedule(g.nodes, asap_schedule, depth)
           final_schedule == resource_constrained_schedule(g.nodes, asap_schedule,
                                             alap_schedule, DefaultConstraints)
           g2 == insert_pipeline_registers(g, final_schedule)
       IN /\ nodes = g2.nodes
          /\ next_value = g2.next_value
          /\ next_node = g2.next_node
          /\ value_map = g2.value_map
          /\ pipeline_config = [enable |-> TRUE, initiation_interval |-> 1,
                                pipeline_depth |-> depth, unroll_factor |-> 1]
          /\ pipeline_stages =
               CHOOSE st \in generate_pipeline_stages(final_schedule) : TRUE
          /\ run_size = Len(g.nodes)
  /\ resource_constraints = DefaultConstraints
  /\ last_run = NoRun
  /\ emitted = generate_verilog_module(nodes, pipeline_config, pipeline_stages)
  /\ emitted = "rtl"
  /\ ResetRegisters
  /\ NoMarket
  /\ ap_start \in BOOLEAN
  /\ in_port \in Vectors

\* What the environment drives during the next cycle
DriveInputs ==
  /\ ap_start' \in BOOLEAN
  /\ in_port' \in Vectors

\* posedge ap_clk with ap_rst_n high
Clock ==
  /\ stages > 0
  /\ pipeline_valid' = ShiftValid(pipeline_valid, stages, ap_start, ap_ready)
  /\ pipeline_counter' = NextCounter(pipeline_counter, pipeline_valid, stages,
                                     ap_start, ap_ready)
  /\ ap_done' = NextDone(pipeline_valid, stages)
  /\ reg0' = NextReg0(reg0, pipeline_valid, in_port)
  /\ stage1' = NextStage1(stage1, reg0, pipeline_valid, InputNames)
  /\ stage2' = NextStage2(stage2, stage1, pipeline_valid)
  /\ result_reg3' = NextStage3(result_reg3, stage2, pipeline_valid)
  /\ out_port' = NextOutputs(out_port, result_reg3, pipeline_valid)
  /\ DriveInputs
  /\ starts' = Min2(starts + Bit(ap_start), 2)
  /\ since' = IF since = NoValue
                THEN IF ap_start /\ ap_ready THEN 0 ELSE NoValue
                ELSE Min2(since + 1, AgeCap)
  /\ accepted' = IF since = NoValue /\ ap_start /\ ap_ready THEN in_port
                  ELSE accepted
  /\ held' = (held /\ in_port' = in_port)
  /\ UNCHANGED <<stages, gvars, mvars>>

\* posedge ap_clk with ap_rst_n low
Reset ==
  /\ stages > 0
  /\ pipeline_valid' = [i \in 0..(stages - 1) |-> 0]
  /\ pipeline_counter' = 0
  /\ ap_done' = 0
  /\ reg0' = [n \in DOMAIN reg0 |-> 0]
  /\ stage1' = [mult_ab |-> 0, mult_cd |-> 0, pass |-> [n \in PassNames |-> 0]]
  /\ stage2' = [add_mult |-> 0, pass |-> [n \in PassNames |-> 0]]
  /\ result_reg3' = 0
  /\ out_port' = [n \in DOMAIN out_port |-> 0]
  /\ DriveInputs
  /\ starts' = 0
  /\ since' = NoValue
  /\ held' = TRUE
  /\ accepted' = EmptyMap
  /\ UNCHANGED <<stages, gvars, mvars>>

RtlNext == Clock \/ Reset

SpecRtl == RtlInit /\ [][RtlNext]_vars

\* ap_clk is free-running: clock edges keep coming
SpecRtlClocked == SpecRtl /\ WF_vars(Clock)

(***************************************************************************)
(* Properties of the scheduler, checked under Spec.                        *)
(***************************************************************************)

\* schedule_pipeline has just returned Ok from its enabled path
RanEnabled == last_run.called /\ last_run.enabled

\* Every operand refers to a value produced earlier in the node list
Acyclic(ns) ==
  \A i \in 1..Len(ns) : \A v \in Range(ns[i].op.args) :
    \E j \in 1..(i - 1) : ns[j].output = v

\* C1: after schedule_pipeline returns Ok on an acyclic graph, every node is
\* assigned a cycle no earlier than the cycle of the producer of each of its
\* operands plus that producer's latency.
C1_ConsumerAfterProducer ==
  (RanEnabled /\ Acyclic(last_run.pre.nodes)) =>
    LET ns == last_run.pre.nodes
        vm == last_run.pre.value_map
        cycle == last_run.final
    IN \A i \in 1..Len(ns) : \A v \in Range(ns[i].op.args) :
         v \in DOMAIN vm =>
           cycle[ns[i].id] >= cycle[vm[v]] + get_operation_latency(NodeById(ns, vm[v]).op)

\* C2: in the cycle assignment schedule_pipeline produces, no cycle holds more
\* nodes of a resource class than the budget configured for that class.
C2_WithinBudget ==
  RanEnabled =>
    LET ns == last_run.pre.nodes
        cycle == last_run.final
    IN \A r \in DOMAIN resource_constraints :
         \A c \in {cycle[id] : id \in DOMAIN cycle} :
           Cardinality({i \in 1..Len(ns) :
                          get_resource_type(ns[i].op) = r /\ cycle[ns[i].id] = c})
             <= resource_constraints[r]

\* The places <<stage, position>> of pipeline_stages that hold node id
Occurrences(id) ==
  {kj \in UNION {{k} \X (1..Len(pipeline_stages[k].operations)) :
                   k \in 1..Len(pipeline_stages)} :
     pipeline_stages[kj[1]].operations[kj[2]] = id}

\* C3: after schedule_pipeline returns Ok, every node of the node list, the
\* PipelineRegister nodes the pass appended included, is in the operations of
\* exactly one pipeline stage.
C3_EveryNodeInOneStage ==
  RanEnabled =>
    \A i \in 1..Len(nodes) : Cardinality(Occurrences(nodes[i].id)) = 1

\* The register chains the pass appended: a chain starts at an appended node
\* whose operand is a value that existed before the call and runs to the
\* next such node.
AppendedIdx == (Len(last_run.pre.nodes) + 1)..Len(nodes)

IsChainHead(i) == nodes[i].op.args[1] < last_run.pre.next_value

ChainLength(i) ==
  SetMin({j \in AppendedIdx : j > i /\ IsChainHead(j)} \cup {Len(nodes) + 1}) - i

ChainsOn(v, len) ==
  {i \in AppendedIdx : IsChainHead(i) /\ nodes[i].op.args[1] = v /\ ChainLength(i) = len}

\* The operand edges producer -> consumer that span len + 1 cycles
EdgesSpanning(v, len) ==
  LET ns == last_run.pre.nodes
      cycle == last_run.final
  IN {pc \in (1..Len(ns)) \X (1..Len(ns)) :
        /\ ns[pc[1]].output = v
        /\ v \in Range(ns[pc[2]].op.args)
        /\ cycle[ns[pc[2]].id] - cycle[ns[pc[1]].id] - 1 = len}

\* C4: the PipelineRegister nodes schedule_pipeline appends are exactly one
\* chain of cycle(c) - cycle(p) - 1 registers for every operand edge p -> c
\* with cycle(c) - cycle(p) >= 2, each element after the first consuming the
\* output of the one before it; nothing is appended for two nodes that no
\* operand edge joins.
C4_RegistersOnlyOnEdges ==
  RanEnabled =>
    /\ \A i \in AppendedIdx :
         /\ nodes[i].op.kind = "PipelineRegister"
         /\ IsChainHead(i) \/ (i - 1 \in AppendedIdx /\ nodes[i].op.args[1] = nodes[i - 1].output)
    /\ \A v \in 0..(last_run.pre.next_value - 1) : \A len \in 1..Len(nodes) :
         Cardinality(ChainsOn(v, len)) = Cardinality(EdgesSpanning(v, len))

C9_EmitterNeverAborts == emitted # "panic"

(***************************************************************************)
(* Properties of the emitted module, checked under SpecRtl.                *)
(***************************************************************************)
InFlight == Cardinality({i \in DOMAIN pipeline_valid : pipeline_valid[i] = 1})

\* C5: with depth D = pipeline_config.pipeline_depth, after reset one ap_start
\* pulse of one cycle makes ap_done 1 exactly D cycles after the edge that
\* accepts it (not earlier), and ap_idle 1 one cycle after that.
C5_DoneAfterDepth ==
  (stages > 0 /\ starts = 1 /\ since # NoValue) =>
    LET D == pipeline_config.pipeline_depth
    IN /\ since = D => ap_done = 1
       /\ since < D => ap_done = 0
       /\ since = D + 1 => ap_idle

\* C6: in every reachable state of the controller the counter equals the number
\* of set bits of pipeline_valid, so ap_ready is high except when the number
\* of in-flight items equals the stage count.
C6_CounterIsInFlight ==
  stages > 0 =>
    /\ pipeline_counter = InFlight
    /\ ap_ready <=> (InFlight # stages)

\* C7: after any sequence of accepted starts, once ap_start stays low ap_idle
\* eventually returns high (the last in-flight item has retired from the top
\* valid bit) and stays high.
C7_IdleReturns == <>[](~ap_start) => <>[]ap_idle

\* C8: with the input vector held on the input ports, the value every output
\* port holds when ap_done is 1 equals, modulo 2^DATA_WIDTH, the software
\* evaluator's output for that port on the same vector.
C8_DatapathMatchesEvaluator ==
  (stages > 0 /\ held /\ ap_done = 1) =>
    \A port \in DOMAIN out_port :
      out_port[port] = Wrap(GetOr(simulate(nodes, in_port), port, 0))

(***************************************************************************)
(* Further properties of the scheduler, checked under Spec.                *)
(***************************************************************************)

\* C11: after schedule_pipeline on a non-empty graph, pipeline_stages is
\* sorted by ascending cycle and the i-th entry has stage index i (0, 1, ...,
\* k-1 without gaps), also when some cycle in between holds no node.
C11_StagesSortedAndDense ==
  (RanEnabled /\ run_size > 0) =>
    /\ \A i \in 1..(Len(pipeline_stages) - 1) :
         pipeline_stages[i].cycle < pipeline_stages[i + 1].cycle
    /\ \A i \in 1..Len(pipeline_stages) : pipeline_stages[i].stage = i - 1

\* The results schedule_pipeline can leave in a second graph that was built
\* and configured like the one of the last call: the same steps on the same
\* nodes, with HashMaps of its own
TwinRuns ==
  LET g == last_run.pre
      dependencies == build_dependency_graph(g.nodes, g.value_map)
      asap_schedule == calculate_asap_schedule(g.nodes, dependencies)
      alap_schedule == calculate_alap_schedule(g.nodes, asap_schedule,
                                               pipeline_config.pipeline_depth)
      final_schedule == resource_constrained_schedule(g.nodes, asap_schedule,
                                          alap_schedule, resource_constraints)
  IN {[final |-> final_schedule, pipeline_stages |-> st] :
        st \in generate_pipeline_stages(final_schedule)}

\* C12: scheduling two identically built graphs with the same configuration
\* and resource constraints yields the same cycle for every node and equal
\* pipeline_stages lists, the order of the node identifiers inside each
\* stage's operations included.
C12_SchedulingIsDeterministic ==
  RanEnabled =>
    \A twin \in TwinRuns :
      /\ twin.final = last_run.final
      /\ twin.pipeline_stages = pipeline_stages

\* C13: schedule_pipeline only appends PipelineRegister nodes at the end of
\* the node list: every node present before the call keeps its position,
\* identifier, operation and operands, and the value_map entries of the values
\* that existed before the call are unchanged.
C13_ScheduleOnlyAppendsRegisters ==
  [][SchedulePipeline =>
       /\ Len(nodes') >= Len(nodes)
       /\ \A i \in 1..Len(nodes) : nodes'[i] = nodes[i]
       /\ \A i \in (Len(nodes) + 1)..Len(nodes') :
            nodes'[i].op.kind = "PipelineRegister"
       /\ \A v \in DOMAIN value_map :
            v \in DOMAIN value_map' /\ value_map'[v] = value_map[v]]_vars

\* A call has appended registers on a value that a node consumes, and the
\* consumer still reads the value itself
C13_Witness ==
  /\ RanEnabled
  /\ Len(nodes) > Len(last_run.pre.nodes)
  /\ \E i \in 1..Len(last_run.pre.nodes), j \in AppendedIdx :
       /\ nodes[i].op.args # <<>>
       /\ nodes[j].op.args[1] \in Range(nodes[i].op.args)

\* C14: when pipeline_config.enable is false, schedule_pipeline returns Ok
\* and leaves the whole graph unchanged: node list, value_map, id counters,
\* pipeline configuration and pipeline_stages.
C14_DisabledCallIsNoOp ==
  [][(~pipeline_config.enable /\ last_run = NoRun /\ last_run' # NoRun) =>
       /\ last_run'.result = "Ok"
       /\ UNCHANGED <<nodes, value_map, next_value, next_node,
                      pipeline_config, pipeline_stages>>]_vars

\* schedule_pipeline has returned from a call on a graph with nodes whose
\* pipelining is disabled
C14_Witness ==
  /\ last_run.called
  /\ ~last_run.enabled
  /\ ~pipeline_config.enable
  /\ Len(nodes) >= 2

(***************************************************************************)
(* Further properties of the emitted module, checked under SpecRtl.        *)
(***************************************************************************)

\* The clock edge about to come loads the output port registers
LoadsOutputs == stages > 0 /\ pipeline_valid[stages - 1] = 1

\* C15 as stated: ap_done rises exactly one clock cycle after the cycle in
\* which the result is loaded into the output port register; for a lone start
\* ap_done is therefore still 0 after the edge that loads the register.
C15_DoneOneCycleAfterLoad ==
  [][(Clock /\ starts = 1 /\ LoadsOutputs) => ap_done' = 0]_vars

\* C15 as amended: for every accepted start, ap_done rises at the same clock
\* edge that loads the result into the output port register: after a clock
\* edge ap_done is 1 exactly when that edge loaded the register from
\* result_reg3.
C15_DoneWithLoad ==
  [][Clock =>
       /\ (ap_done' = 1) <=> LoadsOutputs
       /\ LoadsOutputs => \A port \in DOMAIN out_port : out_port'[port] = result_reg3
       /\ ~LoadsOutputs => out_port' = out_port]_vars

\* The edge that raised ap_done has loaded a result into the output port
C15_Witness ==
  /\ stages > 0
  /\ ap_done = 1
  /\ since = stages
  /\ \E port \in DOMAIN out_port : out_port[port] = result_reg3 /\ result_reg3 > 0

\* The module under clock is the one emitted for result = a*b + c*d + e
\* after enable_pipeline(1, 5, 1)
IsExampleModule ==
  /\ stages > 0
  /\ SubSeq(nodes, 1, 10) = MacGraph(4, 8).nodes
  /\ pipeline_config = [enable |-> TRUE, initiation_interval |-> 1,
                        pipeline_depth |-> 5, unroll_factor |-> 1]

\* C16: for the MAC graph result = a*b + c*d + e scheduled with
\* enable_pipeline(1, 5, 1) the emitted module has 5 stages, and ap_done rises
\* 5 clock cycles after the clock edge that takes the first ap_start, not
\* earlier, also when ap_start is asserted on the following cycles as well.
C16_ExampleDoneAfterFive ==
  IsExampleModule =>
    /\ stages = 5
    /\ since # NoValue =>
         /\ since < 5 => ap_done = 0
         /\ since = 5 => ap_done = 1

\* Five edges after the first of five back-to-back starts: the four later
\* items fill the valid bits behind the first, and ap_done is up
C16_Witness ==
  /\ IsExampleModule
  /\ since = 5
  /\ ap_done = 1
  /\ starts = 2
  /\ \A i \in 1..4 : pipeline_valid[i] = 1

(***************************************************************************)
(* The end-to-end scheduling scenarios, checked under SpecFlow.            *)
(***************************************************************************)

\* schedule_pipeline has just returned Ok for graph g under a multiplier
\* budget of 1
RanWithOneMultiplier(g) ==
  /\ RanEnabled
  /\ last_run.pre.nodes = g.nodes
  /\ resource_constraints["multiplier"] = 1

\* The chains appended on value v all have length len (none for len = 0)
ChainsOnAre(v, len) ==
  \A l \in 1..Len(nodes) :
    Cardinality(ChainsOn(v, l)) = IF l = len THEN 1 ELSE 0

\* C17: for two independent Mul nodes and the Add that sums them, scheduled
\* with a multiplier budget of 1, the Mul nodes get cycles 0 and 1, the Add
\* gets cycle 4, and the registers appended are a chain of length 1 on the
\* earlier multiplier's output and none on the later multiplier's output.
C17_MobilityScenario ==
  RanWithOneMultiplier(MobilityGraph) =>
    /\ last_run.final[2] = 0
    /\ last_run.final[5] = 1
    /\ last_run.final[6] = 4
    /\ ChainsOnAre(2, 1)
    /\ ChainsOnAre(5, 0)

\* schedule_pipeline has scheduled (a+b)*(c+d) after enable_pipeline(1, 4, 1)
\* under a multiplier budget of 1
RanChainScenario ==
  /\ RanWithOneMultiplier(ChainGraph)
  /\ pipeline_config.pipeline_depth = 4

\* C18 as stated: in the chain scenario both Add nodes are assigned cycle 0
\* and the Mul node is assigned the cycle at which both adders finish.
C18_AddersAtCycleZero ==
  RanChainScenario =>
    /\ last_run.final[2] = 0
    /\ last_run.final[5] = 0
    /\ last_run.final[6] = last_run.final[2] + get_operation_latency(Add(0, 1))
    /\ last_run.final[6] = last_run.final[5] + get_operation_latency(Add(3, 4))

\* C18 as amended: in the chain scenario the four Load nodes are assigned
\* cycle 0, both Add nodes share cycle 2, the cycle at which their inputs
\* (latency 2) are finished, and the Mul node is assigned cycle 3, the cycle at
\* which both adders finish.
C18_AddersAfterLoads ==
  RanChainScenario =>
    /\ \A id \in {0, 1, 3, 4} : last_run.final[id] = 0
    /\ last_run.final[2] = 2
    /\ last_run.final[5] = 2
    /\ last_run.final[6] = 3
    /\ last_run.final[6] = last_run.final[2] + get_operation_latency(Add(0, 1))
    /\ last_run.final[6] = last_run.final[5] + get_operation_latency(Add(3, 4))

\* The chain scenario has been scheduled and its stages generated
C18_Witness == RanChainScenario /\ Len(pipeline_stages) = 4


\* C19: whenever an enabled schedule_pipeline call returns Ok, the ASAP
\* computation has assigned a start cycle to every node of the graph it was
\* given (a graph it cannot order makes the call fail with CycleDetected
\* instead).
C19_AsapCoversEveryNode ==
  RanEnabled =>
    (last_run.result = "Ok" =>
       \A id \in NodeIds(last_run.pre.nodes) : id \in DOMAIN last_run.asap)


\* The nodes for which the window scan of resource_constrained_schedule finds
\* every cycle of [ASAP, ALAP] at the full budget of the node's resource
\* class, replaying the loop over nodes_by_mobility with its resource_usage.
RECURSIVE SaturatedNodes(_, _, _, _, _)
SaturatedNodes(order, asap, alap, constraints, resource_usage) ==
  IF order = <<>> THEN {}
  ELSE
    LET node == Head(order)
        asap_time == GetOr(asap, node.id, 0)
        alap_time == GetOr(alap, node.id, 0)
        resource_type == get_resource_type(node.op)
        free == FreeCycles(resource_usage, constraints, resource_type,
                           asap_time, alap_time)
        usage2 == IF free = {} THEN resource_usage
                  ELSE MapInsert(resource_usage, <<SetMin(free), resource_type>>,
                                 Usage(resource_usage, SetMin(free), resource_type) + 1)
    IN (IF free = {} THEN {node.id} ELSE {})
         \union SaturatedNodes(Tail(order), asap, alap, constraints, usage2)

\* The nodes of the last enabled run whose whole window was saturated
SaturatedInLastRun ==
  SaturatedNodes(SortByMobility(last_run.pre.nodes, last_run.asap, last_run.alap),
                 last_run.asap, last_run.alap, resource_constraints, EmptyMap)

\* C20: a node whose whole window [ASAP, ALAP] is at the full budget of its
\* resource class is either placed beyond that window (the horizon was
\* extended) or makes schedule_pipeline return an error; the call never
\* returns Ok with such a node placed inside its saturated window.
C20_SaturatedWindowIsReported ==
  RanEnabled =>
    \A id \in SaturatedInLastRun :
      \/ last_run.result # "Ok"
      \/ last_run.final[id] > GetOr(last_run.alap, id, 0)


\* C21: the logic class has no per-cycle limit: in an enabled run every
\* logic-class node that has an ASAP cycle is assigned that cycle, however
\* many logic-class nodes share it.
C21_LogicIsUnbounded ==
  RanEnabled =>
    LET ns == last_run.pre.nodes
    IN \A i \in 1..Len(ns) :
         (get_resource_type(ns[i].op) = "logic" /\ ns[i].id \in DOMAIN last_run.asap)
           => last_run.final[ns[i].id] = last_run.asap[ns[i].id]


\* The handshake logic of a pipelined module: the valid shift register and
\* its shift of ap_start /\ ap_ready, the counter behind ap_idle and ap_ready,
\* and ap_done registered from the top valid bit
HandshakeLogic ==
  {"reg pipeline_valid", "reg pipeline_counter", "assign ap_idle",
   "assign ap_ready", "pipeline_valid <= shift", "ap_done <= top valid"}

\* C22: whatever the pattern of the graph (MAC, SimpleArithmetic, Complex),
\* a pipelined module that has been emitted contains the whole handshake
\* logic.
C22_EveryPatternHasHandshake ==
  (emitted = "rtl" /\ pipeline_config.enable /\ pipeline_stages # <<>>)
    => HandshakeLogic \subseteq generate_clean_pipelined_module(nodes)


(***************************************************************************)
(* Further properties of the emitter and the evaluator, checked under      *)
(* SpecFlow.                                                               *)
(***************************************************************************)

\* The operation table's value of one operation, on operand values small
\* enough for the 32-bit result to be exact
TableValue(op, in, values) ==
  LET arg(i) == GetOr(values, op.args[i], 0)
  IN CASE op.kind = "Const" -> op.val
       [] op.kind = "Load" -> GetOr(in, op.name, 0)
       [] op.kind = "Add" -> arg(1) + arg(2)
       [] op.kind = "Sub" -> arg(1) - arg(2)
       [] op.kind = "Mul" -> arg(1) * arg(2)
       [] op.kind = "Not" -> 0 - arg(1) - 1
       [] op.kind = "CmpLt" -> IF arg(1) < arg(2) THEN 1 ELSE 0
       [] op.kind = "CmpEq" -> IF arg(1) = arg(2) THEN 1 ELSE 0
       [] op.kind = "Mux" -> IF arg(1) # 0 THEN arg(2) ELSE arg(3)
       [] op.kind = "PipelineRegister" -> arg(1)
       [] OTHER -> 0

\* The table's outputs of a graph walked in insertion order; st = <<values,
\* outputs>>, the values of each step computed before the next step is taken
RECURSIVE TableLoop(_, _, _)
TableLoop(ns, in, st) ==
  IF ns = <<>> THEN st[2]
  ELSE
    LET n == Head(ns)
        st2 == IF n.op.kind = "Store"
                 THEN <<st[1], MapInsert(st[2], n.op.name, GetOr(st[1], n.op.args[1], 0))>>
               ELSE IF n.output # NoValue
                 THEN <<MapInsert(st[1], n.output, TableValue(n.op, in, st[1])), st[2]>>
               ELSE st
    IN IF DOMAIN st2[1] = {} /\ ns = <<>> THEN st2[2] ELSE TableLoop(Tail(ns), in, st2)

\* The table's outputs of a graph: the walk over the Store nodes and the
\* nodes whose output some node consumes (no other node can change an output)
TableOutputs(ns, in) ==
  LET consumed == UNION {Range(ns[i].op.args) : i \in 1..Len(ns)}
      used == SelectSeq(ns, LAMBDA n : n.op.kind = "Store" \/ n.output \in consumed)
  IN TableLoop(used, in, <<EmptyMap, EmptyMap>>)

\* The input vectors that give a value to every input port of the graph
VectorsFor(ns) ==
  {in \in Vectors : \A i \in 1..Len(ns) :
     ns[i].op.kind = "Load" => ns[i].op.name \in DOMAIN in}

\* C23: for every graph and every vector that gives each input port a value,
\* set_input followed by simulate returns for each Store the value the
\* operation table gives to its operand, whatever the kinds of the nodes.
C23_EvaluatorFollowsTable ==
  \A in \in VectorsFor(nodes) :
    simulate(nodes, in) = TableOutputs(nodes, in)


(***************************************************************************)
(* The construction interface of Graph on its own (src/ir/graph.rs): the   *)
(* four public calls that mint values, in any order.                       *)
(***************************************************************************)

MaxValues == 4

\* Graph::new_value, called by the user of the graph
NewValue ==
  /\ next_value < MaxValues
  /\ next_value' = next_value + 1
  /\ UNCHANGED <<nodes, next_node, value_map, pipeline_config, pipeline_stages,
                 resource_constraints, run_size, last_run, emitted>>
  /\ UNCHANGED <<rvars, mvars>>

\* Graph::insert_pipeline_register, called by the user of the graph
InsertPipelineRegister ==
  /\ Len(nodes) < MaxNodes
  /\ \E value \in Operands : SetGraph(insert_pipeline_register(TheGraph, value))
  /\ UNCHANGED <<pipeline_config, pipeline_stages, resource_constraints,
                 run_size, last_run, emitted>>
  /\ UNCHANGED <<rvars, mvars>>

BuilderNext ==
  \/ NewValue
  \/ AddNodeWithOutput
  \/ AddNode
  \/ InsertPipelineRegister

SpecBuilder == Init /\ [][BuilderNext]_vars

\* The nodes whose output is value v
Producers(v) == {i \in 1..Len(nodes) : nodes[i].output = v}

\* C24: after any sequence of new_value, add_node_with_output, add_node and
\* insert_pipeline_register calls, every value the graph has minted (0 up to
\* next_value - 1) is the output of exactly one node, and value_map maps the
\* value to that node.
C24_EveryValueHasOneProducer ==
  \A v \in 0..(next_value - 1) :
    /\ Cardinality(Producers(v)) = 1
    /\ v \in DOMAIN value_map
    /\ \A i \in Producers(v) : value_map[v] = nodes[i].id


\* C25: for an acyclic graph, the ASAP cycle of a node without producers is 0
\* and the ASAP cycle of every other node is the maximum over its producers
\* of the producer's ASAP cycle plus the producer's latency.
C25_AsapIsLongestPath ==
  (RanEnabled /\ Acyclic(last_run.pre.nodes)) =>
    LET ns == last_run.pre.nodes
        asap == last_run.asap
        finish(p) == asap[p] + get_operation_latency(NodeById(ns, p).op)
    IN \A id \in NodeIds(ns) :
         /\ id \in DOMAIN asap
         /\ LET producers == Range(last_run.dependencies[id])
            IN asap[id] = IF producers = {} THEN 0
                          ELSE SetMax({finish(p) : p \in producers})


\* Node i of the last run is placed before node j: smaller mobility, or the
\* same mobility and earlier insertion
PlacedBefore(i, j) ==
  LET ns == last_run.pre.nodes
      m(k) == Mobility(last_run.asap, last_run.alap, ns[k].id)
  IN m(i) < m(j) \/ (m(i) = m(j) /\ i < j)

\* The cycles of node j's window at which the nodes placed before it use less
\* than the budget of its resource class
CyclesBelowBudget(j) ==
  LET ns == last_run.pre.nodes
      r == get_resource_type(ns[j].op)
      used(c) == Cardinality({i \in 1..Len(ns) :
                                /\ PlacedBefore(i, j)
                                /\ get_resource_type(ns[i].op) = r
                                /\ last_run.final[ns[i].id] = c})
  IN {c \in GetOr(last_run.asap, ns[j].id, 0)..last_run.alap[ns[j].id] :
        used(c) < GetOr(resource_constraints, r, 1)}

\* C26: with H = min(maximum ASAP cycle, pipeline_depth), every node has
\* ALAP = ASAP + max(0, H - ASAP), its assigned cycle lies in [ASAP, ALAP],
\* and it is the smallest cycle of that window at which the nodes placed
\* before it (ascending mobility, ties in insertion order) use less than the
\* budget of its resource class.
C26_FirstCycleBelowBudget ==
  (RanEnabled /\ last_run.pre.nodes # <<>>) =>
    LET ns == last_run.pre.nodes
        asap(id) == GetOr(last_run.asap, id, 0)
        H == Min2(SetMax({0} \cup {last_run.asap[k] : k \in DOMAIN last_run.asap}),
                  pipeline_config.pipeline_depth)
    IN \A j \in 1..Len(ns) :
         LET id == ns[j].id
         IN /\ last_run.alap[id] = asap(id) + (IF H > asap(id) THEN H - asap(id) ELSE 0)
            /\ asap(id) <= last_run.final[id]
            /\ last_run.final[id] <= last_run.alap[id]
            /\ CyclesBelowBudget(j) # {}
            /\ last_run.final[id] = SetMin(CyclesBelowBudget(j))


\* The number of nodes of the graph with operation kind k
KindCount(k) == Cardinality({i \in 1..Len(nodes) : nodes[i].op.kind = k})

\* C27: the graph is classified MAC iff it has at least 2 Mul and at least 2
\* Add nodes, SimpleArithmetic iff it has at most 1 Mul and at most 2 Add
\* nodes, Complex otherwise, with 5, 3 and 4 logical stages; the
\* PipelineRegister nodes that scheduling appends leave the class as it was.
C27_PatternFromMulAndAddCounts ==
  LET pattern == ComputationPattern(nodes)
      mac == KindCount("Mul") >= 2 /\ KindCount("Add") >= 2
      simple == KindCount("Mul") <= 1 /\ KindCount("Add") <= 2
  IN /\ pattern = "MAC" <=> mac
     /\ pattern = "SimpleArithmetic" <=> simple
     /\ pattern = "Complex" <=> (~mac /\ ~simple)
     /\ logical_stages(pattern) =
          (IF mac THEN 5 ELSE IF simple THEN 3 ELSE 4)
     /\ RanEnabled => pattern = ComputationPattern(last_run.pre.nodes)

\* C27 witness: a graph with 2 Mul and 1 Add nodes has been scheduled,
\* PipelineRegister nodes were appended, and the class is Complex.
C27_Witness ==
  /\ RanEnabled
  /\ KindCount("PipelineRegister") > 0
  /\ KindCount("Mul") = 2 /\ KindCount("Add") = 1
  /\ ComputationPattern(nodes) = "Complex"


\* The value the MAC datapath computes from one vector on the input ports:
\* inputs[0] * inputs[1] + inputs[2] * inputs[3] + e, in DATA_WIDTH bits
MacResult(v) ==
  Wrap(Wrap(v[InputNames[1]] * v[InputNames[2]])
         + Wrap(v[InputNames[3]] * v[InputNames[4]]) + v["e"])

\* C28: the result latched on the output ports for the first accepted start
\* (five edges after the accepting edge) is computed from the values the
\* input ports had in the cycle in which that start was accepted, whatever
\* the ports carry afterwards.
C28_ResultOfAcceptedInputs ==
  (stages = 5 /\ since = 5) =>
    \A port \in DOMAIN out_port : out_port[port] = MacResult(accepted)


\* C29: an enabled schedule_pipeline call on a graph that the previous call
\* has already scheduled appends no node, gives every node of the first run
\* the cycle it had, and leaves pipeline_stages as it was.
C29_SecondRunChangesNothing ==
  [][(RanEnabled /\ last_run'.called /\ last_run'.enabled
        /\ last_run'.pre = TheGraph) =>
       /\ nodes' = nodes
       /\ \A id \in DOMAIN last_run.final : last_run'.final[id] = last_run.final[id]
       /\ pipeline_stages' = pipeline_stages]_vars


(***************************************************************************)
(* The order book simulator (src/hft/market_data.rs).  An order is a       *)
(* record of its id, price, quantity and side; an OrderQueue is a record   *)
(* of its price, its orders (front first) and total_quantity.  The         *)
(* simulator draws its pseudo-random numbers from current_time, which      *)
(* starts at the wall clock: the action of a tick is any of 0..9, and all  *)
(* draws of one tick have the parity of current_time + 1 (each is an odd   *)
(* multiple of current_time plus an odd constant, reduced by an even       *)
(* modulus).  current_time counts ticks here.                              *)
(***************************************************************************)

BookLevels == 2
InitialPrice == 10
MaxTicks == 3
MaxOrderId == 15

\* OrderQueue::new
OrderQueue_new(price) == [price |-> price, orders |-> <<>>, total_quantity |-> 0]

\* OrderQueue::add_order
OrderQueue_add_order(q, order) ==
  [q EXCEPT !.total_quantity = @ + order.quantity, !.orders = Append(@, order)]

\* OrderQueue::remove_front: the queue after the call (unchanged when empty)
remove_front(q) ==
  IF q.orders = <<>> THEN q
  ELSE [q EXCEPT !.orders = Tail(@),
                 !.total_quantity = SatSub(@, Head(q.orders).quantity)]

\* The statement cancel_random_order and execute_market_order apply to one
\* queue: if the queue has orders, remove_front, then subtract the removed
\* order's quantity from total_quantity
RemoveAndSubtract(q) ==
  IF q.orders = <<>> THEN q
  ELSE [remove_front(q) EXCEPT
          !.total_quantity = SatSub(@, Head(q.orders).quantity)]

\* sort_by on the price, descending for bids and ascending for asks (stable)
RECURSIVE SortQueues(_, _)
SortQueues(qs, descending) ==
  IF qs = <<>> THEN <<>>
  ELSE
    LET front == SortQueues(SubSeq(qs, 1, Len(qs) - 1), descending)
        last == qs[Len(qs)]
        before(q) == IF descending THEN q.price >= last.price
                     ELSE q.price <= last.price
        k == Cardinality({i \in 1..Len(front) : before(front[i])})
    IN SubSeq(front, 1, k) \o <<last>> \o SubSeq(front, k + 1, Len(front))

\* The match arm of MarketDataSimulator::add_order for one side: the order
\* joins the queue of its price, or a new queue that is pushed and sorted in
QueuesWithOrder(qs, order, descending) ==
  IF \E i \in 1..Len(qs) : qs[i].price = order.price
    THEN LET i == SetMin({j \in 1..Len(qs) : qs[j].price = order.price})
         IN [qs EXCEPT ![i] = OrderQueue_add_order(@, order)]
    ELSE SortQueues(Append(qs, OrderQueue_add_order(OrderQueue_new(order.price), order)),
                    descending)

\* MarketDataSimulator::add_order
add_order(price, quantity, side) ==
  LET order == [id |-> next_order_id, price |-> price, quantity |-> quantity,
                side |-> side]
  IN /\ next_order_id' = next_order_id + 1
     /\ IF side = "Buy"
          THEN /\ bid_queues' = QueuesWithOrder(bid_queues, order, TRUE)
               /\ UNCHANGED ask_queues
          ELSE /\ ask_queues' = QueuesWithOrder(ask_queues, order, FALSE)
               /\ UNCHANGED bid_queues

\* The queue initialize_order_book creates at one level: three orders of
\* quantity 50, 75 and 100 with consecutive ids
InitialQueue(price, side, first_id) ==
  [price |-> price,
   orders |-> [j \in 1..3 |-> [id |-> first_id + j - 1, price |-> price,
                               quantity |-> 50 + (j - 1) * 25, side |-> side]],
   total_quantity |-> 225]

\* MarketDataSimulator::new(InitialPrice), with BookLevels levels a side
MarketNew ==
  /\ bid_queues = SortQueues([i \in 1..BookLevels |->
                                InitialQueue(InitialPrice - i, "Buy", 6 * (i - 1) + 1)],
                             TRUE)
  /\ ask_queues = SortQueues([i \in 1..BookLevels |->
                                InitialQueue(IF i = 1 THEN InitialPrice
                                             ELSE InitialPrice + i - 1,
                                             "Sell", 6 * (i - 1) + 4)],
                             FALSE)
  /\ next_order_id = 6 * BookLevels + 1
  /\ current_time = 0

MarketInit == GraphInit /\ NoModule /\ MarketNew

OrderPrices == {InitialPrice - 1, InitialPrice + 3}
OrderQuantities == {10}
Sides == {"Buy", "Sell"}

\* A call of the public MarketDataSimulator::add_order
AddOrder ==
  /\ next_order_id < MaxOrderId
  /\ \E price \in OrderPrices, quantity \in OrderQuantities, side \in Sides :
       add_order(price, quantity, side)
  /\ UNCHANGED <<current_time, gvars, rvars>>

\* advance_time(100) at the head of simulate_tick
AdvanceTime ==
  /\ current_time < MaxTicks
  /\ current_time' = current_time + 1

\* The queue index a tick draws for a side with len queues
QueueDraws(len, action) ==
  {idx \in 0..(len - 1) : len % 2 = 0 => idx % 2 = action % 2}

\* simulate_tick with action 0..=3: add_random_order
TickAdd ==
  /\ AdvanceTime
  /\ next_order_id < MaxOrderId
  /\ \E action \in 0..3, price_offset \in 0..4, draw \in {0, 1, 98, 99} :
       /\ draw % 2 = action % 2
       /\ LET side == IF action % 2 = 0 THEN "Buy" ELSE "Sell"
              base_price == IF side = "Buy" THEN InitialPrice - 1 - price_offset
                            ELSE InitialPrice + 1 + price_offset
          IN add_order(base_price, 25 + draw, side)
  /\ UNCHANGED <<gvars, rvars>>

\* simulate_tick with action 4..=6: cancel_random_order
TickCancel ==
  /\ AdvanceTime
  /\ \E action \in 4..6 :
       IF action % 2 = 0 /\ bid_queues # <<>>
         THEN /\ \E queue_idx \in QueueDraws(Len(bid_queues), action) :
                   bid_queues' = [bid_queues EXCEPT
                                    ![queue_idx + 1] = RemoveAndSubtract(@)]
              /\ UNCHANGED ask_queues
       ELSE IF ask_queues # <<>>
         THEN /\ \E queue_idx \in QueueDraws(Len(ask_queues), action) :
                   ask_queues' = [ask_queues EXCEPT
                                    ![queue_idx + 1] = RemoveAndSubtract(@)]
              /\ UNCHANGED bid_queues
       ELSE UNCHANGED <<bid_queues, ask_queues>>
  /\ UNCHANGED <<next_order_id, gvars, rvars>>

\* simulate_tick with action 7..=8: execute_market_order
TickExecute ==
  /\ AdvanceTime
  /\ \E action \in 7..8 :
       IF action % 2 = 0
         THEN /\ bid_queues' = IF bid_queues = <<>> THEN bid_queues
                               ELSE [bid_queues EXCEPT ![1] = RemoveAndSubtract(@)]
              /\ UNCHANGED ask_queues
         ELSE /\ ask_queues' = IF ask_queues = <<>> THEN ask_queues
                               ELSE [ask_queues EXCEPT ![1] = RemoveAndSubtract(@)]
              /\ UNCHANGED bid_queues
  /\ UNCHANGED <<next_order_id, gvars, rvars>>

\* simulate_tick with action 9: no action
TickIdle ==
  /\ AdvanceTime
  /\ UNCHANGED <<bid_queues, ask_queues, next_order_id, gvars, rvars>>

MarketNext ==
  \/ AddOrder
  \/ TickAdd
  \/ TickCancel
  \/ TickExecute
  \/ TickIdle

SpecMarket == MarketInit /\ [][MarketNext]_vars

\* The sum of the quantities of a sequence of orders
RECURSIVE QuantitySum(_)
QuantitySum(orders) ==
  IF orders = <<>> THEN 0 ELSE Head(orders).quantity + QuantitySum(Tail(orders))

\* C30: after any sequence of add_order and simulate_tick calls, the
\* total_quantity of every bid and ask queue equals the sum of the quantities
\* of the orders the queue holds.
C30_TotalIsSumOfOrders ==
  \A qs \in {bid_queues, ask_queues} :
    \A i \in 1..Len(qs) : qs[i].total_quantity = QuantitySum(qs[i].orders)

====
